---- MODULE Spec2Model ----
(***************************************************************************)
(* mgrech/ovector: a fixed-capacity vector on a guarded virtual-memory     *)
(* reservation.  The model covers the guarded allocator                    *)
(* (source/ovector.cpp), the storage holder and the container              *)
(* (include/mgrech/ovector.hpp), and the part of the kernel they talk to:  *)
(* a paged address space with mmap/munmap and page protection.             *)
(*                                                                         *)
(* size_type is an unsigned integer of WordBits bits; every size_type and  *)
(* pointer computation is reduced modulo 2^WordBits.                       *)
(***************************************************************************)
EXTENDS Integers, Sequences, FiniteSets, TLC

\* ------------------------------------------------------------------ bounds
\* Width of size_type and of a pointer in the model (64 in the build).
WordBits == 15
\* Small element counts asked of the factory are 0..MaxCount; in a larger
\* container, growing and shrinking by one is explored up to this size and
\* next to the capacity.
MaxCount == 2
\* Raw allocations held at once in the allocator-only specification.
MaxHeld == 1

\* -------------------------------------------------------- size arithmetic
Mod == 2 ^ WordBits

PAGE_SIZE == 4096

SIZE_TYPE_MAX == Mod - 1

Wrap(x) == x % Mod

ceil_multiple_nocarry(size, n) == Wrap((size \div n) * n)

ceil_multiple(size, n) ==
    Wrap(((size \div n) + (IF size % n # 0 THEN 1 ELSE 0)) * n)

add_overflows_never(a, b) == FALSE

add_overflows(a, b) == SIZE_TYPE_MAX - b < a

\* The page-rounding overflow test of guarded_alloc.
rounding_unchecked(requestedSize) == FALSE

rounding_overflows(requestedSize) ==
    requestedSize > Wrap(Wrap(SIZE_TYPE_MAX - PAGE_SIZE) + 1)

wastedSpace_none(allocatedDataSize, requestedDataSize) == 0

wastedSpace(allocatedDataSize, requestedDataSize) ==
    Wrap(allocatedDataSize - requestedDataSize)

\* ------------------------------------------------------------ the kernel
MAP_FAILED == -1

NumPages == Mod \div PAGE_SIZE

PageOf(a) == a \div PAGE_SIZE

PageCount(len) == (len + PAGE_SIZE - 1) \div PAGE_SIZE

SetMin(S) == CHOOSE x \in S : \A y \in S : x <= y

SetMax(S) == CHOOSE x \in S : \A y \in S : x >= y

\* Page-aligned bases at which len bytes of free address space start.  Page 0
\* is never handed out, so a mapping's base is never the null pointer.
Fits(pages, len) ==
    { b \in 1..(NumPages - PageCount(len)) :
        \A i \in 0..(PageCount(len) - 1) : pages[b + i] = "free" }

\* What the kernel may answer to one os_guarded_alloc: refuse the
\* reservation, or place it bottom-up or top-down; and, once reserved, accept
\* or refuse the second mapping that installs the guard.
KernelChoices ==
    [place : {"fail", "low", "high"}, guard_ok : BOOLEAN]

\* The answers of a kernel that always places bottom-up.
BottomUp == { k \in KernelChoices : k.place # "high" }

\* mmap(nullptr, len, PROT_READ | PROT_WRITE, MAP_PRIVATE | MAP_ANONYMOUS):
\* the base of the new mapping, or MAP_FAILED.
mmap_base(pages, len, place) ==
    IF len = 0 \/ place = "fail" \/ Fits(pages, len) = {}
    THEN MAP_FAILED
    ELSE PAGE_SIZE * (IF place = "low" THEN SetMin(Fits(pages, len))
                                       ELSE SetMax(Fits(pages, len)))

\* The pages of [addr, addr + len), addr page-aligned.
PagesOf(addr, len) == PageOf(addr) .. (PageOf(addr) + PageCount(len) - 1)

Protect(pages, addr, len, prot) ==
    [p \in DOMAIN pages |-> IF p \in PagesOf(addr, len) THEN prot ELSE pages[p]]

\* The objects at the addresses gone leave memory.  One of them that no
\* destructor ran on is reported as lost (len counts them).
Lose(m, gone) ==
    LET lost == {a \in gone : m.heap[a].dtors = 0 /\ m.heap[a].owed}
    IN [m EXCEPT
          !.heap   = [a \in DOMAIN m.heap \ gone |-> m.heap[a]],
          !.events = IF lost = {} THEN @
                     ELSE Append(@, [ev |-> "lost", addr |-> SetMin(lost),
                                     len |-> Cardinality(lost)])]

\* One entry of the log of what the latest call did to the outside world.
Event(ev, addr, len) == [ev |-> ev, addr |-> addr, len |-> len]

fatal_error_returns(m) == m

\* fatal_error: the OS error code goes to stderr, then std::terminate().
fatal_error(m) ==
    [m EXCEPT !.events = Append(@, Event("fatal_error", 0, 0)),
              !.status = "fatal"]

guard_at_base(memory, dataSize) == memory

guard_at(memory, dataSize) == Wrap(memory + dataSize)

\* os_guarded_alloc (POSIX): reserve dataSize + guardSize bytes read-write,
\* then map the trailing guardSize bytes PROT_NONE over them.  The result is
\* [memory, m]: memory = 0 is nullptr; m.status = "fatal" is fatal_error.
os_guarded_alloc(m, dataSize, guardSize, choice) ==
    LET len    == Wrap(dataSize + guardSize)
        memory == mmap_base(m.pages, len, choice.place)
        guard  == guard_at(memory, dataSize)
        mapped == [m EXCEPT
                     !.pages  = Protect(m.pages, memory, len, "rw"),
                     !.resv   = @ \cup {[base |-> memory, len |-> len]},
                     !.events = Append(@, Event("mmap", memory, len))]
        guard_fails == \/ guardSize = 0
                       \/ guard % PAGE_SIZE # 0
                       \/ guard + guardSize > Mod
                       \/ ~choice.guard_ok
    IN  IF memory = MAP_FAILED
        THEN [memory |-> 0, m |-> m]
        ELSE IF guard_fails
        THEN [memory |-> 0, m |-> fatal_error(mapped)]
        ELSE [memory |-> memory,
              m |-> [mapped EXCEPT
                       !.pages = Protect(mapped.pages, guard, guardSize, "guard")]]

\* os_dealloc (POSIX): munmap(memory, size); a failing munmap is fatal_error.
\* munmap of a range that holds no mapping succeeds and changes nothing.
\* unmap_ok is the kernel's answer to a call with valid arguments.
os_dealloc(m, memory, size, unmap_ok) ==
    LET called == [m EXCEPT !.events = Append(@, Event("munmap", memory, size))]
        unmapped ==
            [called EXCEPT
                !.pages = Protect(m.pages, memory, size, "free"),
                !.resv  = @ \ {[base |-> memory, len |-> size]}]
    IN  IF \/ memory % PAGE_SIZE # 0 \/ size = 0 \/ memory + size > Mod
           \/ ~unmap_ok
        THEN fatal_error(called)
        ELSE Lose(unmapped,
                  {a \in DOMAIN m.heap : PageOf(a) \in PagesOf(memory, size)})

\* ------------------------------------------------------ guarded allocator
NoAlloc(m) ==
    [ptr |-> 0, osCalled |-> FALSE, allocatedDataSize |-> 0,
     allocatedGuardSize |-> 0, len |-> 0, base |-> 0, m |-> m]

\* guarded_alloc: ptr is the pointer returned (0 = nullptr); osCalled,
\* allocatedDataSize, allocatedGuardSize and len record the call made to
\* os_guarded_alloc, base what it returned.
guarded_alloc(m, requestedDataSize, requestedGuardSize, choice) ==
    LET allocatedDataSize  == ceil_multiple(requestedDataSize, PAGE_SIZE)
        allocatedGuardSize == ceil_multiple(requestedGuardSize, PAGE_SIZE)
        os == os_guarded_alloc(m, allocatedDataSize, allocatedGuardSize, choice)
        called == [ptr |-> 0, osCalled |-> TRUE,
                   allocatedDataSize |-> allocatedDataSize,
                   allocatedGuardSize |-> allocatedGuardSize,
                   len |-> Wrap(allocatedDataSize + allocatedGuardSize),
                   base |-> os.memory, m |-> os.m]
    IN  IF requestedDataSize = 0
        THEN NoAlloc(m)
        ELSE IF \/ rounding_overflows(requestedDataSize)
                \/ rounding_overflows(requestedGuardSize)
        THEN NoAlloc(m)
        ELSE IF add_overflows(allocatedDataSize, allocatedGuardSize)
        THEN NoAlloc(m)
        ELSE IF os.memory = 0
        THEN called
        ELSE [called EXCEPT
                !.ptr = Wrap(os.memory
                             + wastedSpace(allocatedDataSize, requestedDataSize))]

guarded_dealloc_data_only(m, memory, requestedDataSize, requestedGuardSize, unmap_ok) ==
    LET allocatedDataSize == ceil_multiple(requestedDataSize, PAGE_SIZE)
        allocatedMemory ==
            Wrap(memory - wastedSpace(allocatedDataSize, requestedDataSize))
    IN  os_dealloc(m, allocatedMemory, allocatedDataSize, unmap_ok)

\* guarded_dealloc: the machine after the release.
guarded_dealloc(m, memory, requestedDataSize, requestedGuardSize, unmap_ok) ==
    LET allocatedDataSize  == ceil_multiple(requestedDataSize, PAGE_SIZE)
        allocatedGuardSize == ceil_multiple(requestedGuardSize, PAGE_SIZE)
        allocatedMemory ==
            Wrap(memory - wastedSpace(allocatedDataSize, requestedDataSize))
    IN  os_dealloc(m, allocatedMemory,
                   Wrap(allocatedDataSize + allocatedGuardSize), unmap_ok)

\* ------------------------------------------------------------- the state
VARIABLES
    sizeofT,    \* sizeof(T) of the element type the program instantiates
    trivialT,   \* std::is_trivially_destructible<T>::value
    vec,        \* the ovector objects: live flag and the _storage fields
    mach,       \* address space, live reservations, objects in memory, the
                \* events of the latest call, process status
    last,       \* the call made by the latest step and what it returned
    hist,       \* per container: the values pushed, in the specification
                \* that only makes containers and pushes
    held        \* raw guarded_alloc results not yet handed to guarded_dealloc

vars == <<sizeofT, trivialT, vec, mach, last, hist, held>>

Cont == {1, 2}

Values == {1, 2}

\* The element types the program instantiates ovector with: sizeof(T) and
\* is_trivially_destructible<T>.
ElemTypes ==
    { [size |-> 1, trivial |-> TRUE], [size |-> 12, trivial |-> FALSE] }

NullStorage == [memory |-> 0, size |-> 0, max_size |-> 0]

Dead == [live |-> FALSE, memory |-> 0, size |-> 0, max_size |-> 0]

Storage(o) == [memory |-> o.memory, size |-> o.size, max_size |-> o.max_size]

Live(st) == [live |-> TRUE, memory |-> st.memory, size |-> st.size,
             max_size |-> st.max_size]

Machine0 ==
    [pages  |-> [p \in 0..(NumPages - 1) |-> "free"],
     resv   |-> {},
     heap   |-> << >>,
     events |-> << >>,
     status |-> "running"]

\* What a step records of a guarded_alloc call: the request and the result.
AllocInfo(alloc, requestedDataSize, requestedGuardSize) ==
    [requestedDataSize |-> requestedDataSize,
     requestedGuardSize |-> requestedGuardSize,
     ptr |-> alloc.ptr, osCalled |-> alloc.osCalled,
     allocatedDataSize |-> alloc.allocatedDataSize,
     allocatedGuardSize |-> alloc.allocatedGuardSize,
     len |-> alloc.len, base |-> alloc.base]

NoCall ==
    [op |-> "none", a |-> 0, b |-> 0, n |-> 0, v |-> 0, threw |-> FALSE,
     ret |-> 0, at |-> 0, alloc |-> AllocInfo(NoAlloc(0), 0, 0)]

Hist0 == [c \in Cont |-> << >>]

\* ------------------------------------------------------ objects in memory
\* The pages an object of sizeof(T) bytes at addr occupies.
Touched(addr) == {PageOf(addr), PageOf(Wrap(addr + sizeofT - 1))}

Writable(m, addr) == \A p \in Touched(addr) : m.pages[p] = "rw"

Overlaps(a, b) == a # b /\ (Wrap(a - b) < sizeofT \/ Wrap(b - a) < sizeofT)

\* new(addr) T(v): a store to a page that is not read-write is a SIGSEGV.
construct(m, addr, v) ==
    IF ~Writable(m, addr)
    THEN [m EXCEPT !.status = "segv"]
    ELSE [m EXCEPT
            !.events = Append(@, Event("construct", addr, sizeofT)),
            !.heap   = [a \in {x \in DOMAIN m.heap : ~Overlaps(x, addr)} \cup {addr}
                          |-> IF a = addr
                              THEN [val |-> v, dtors |-> 0, owed |-> ~trivialT]
                              ELSE m.heap[a]]]

\* addr->~T(): a no-op for a trivially destructible T.  Only the destructor
\* of a slot an object was constructed in is recorded; dtors counts the
\* destructor calls on the object, up to 2.
destroy(m, addr) ==
    IF trivialT \/ addr \notin DOMAIN m.heap
    THEN m
    ELSE [m EXCEPT
            !.events = Append(@, Event("dtor", addr, sizeofT)),
            !.heap[addr].dtors = IF @ < 2 THEN @ + 1 ELSE @]

\* Address of slot i of a storage.
Slot(st, i) == Wrap(st.memory + i * sizeofT)

\* The constructed slots among the first n of a storage, by index.
Built(m, st, n) ==
    { i \in { Wrap(a - st.memory) \div sizeofT : a \in DOMAIN m.heap } :
        i < n /\ Slot(st, i) \in DOMAIN m.heap }

RECURSIVE destroy_each(_, _, _)
\* The destructor loop of clear_impl(std::false_type), in index order.
destroy_each(m, st, todo) ==
    IF todo = {} THEN m
    ELSE LET i == SetMin(todo)
         IN destroy_each(destroy(m, Slot(st, i)), st, todo \ {i})

\* ---------------------------------------------------------- ovector_storage
max_size_unchecked(memory, max_size) == max_size

\* max_size(memory ? max_size : 0)
storage_max_size(memory, max_size) == IF memory # 0 THEN max_size ELSE 0

storage_ctor_count_as_bytes(m, max_size, choice) ==
    LET alloc == guarded_alloc(m, max_size, sizeofT, choice)
    IN [st |-> [memory |-> alloc.ptr, size |-> 0,
                max_size |-> storage_max_size(alloc.ptr, max_size)],
        alloc |-> alloc]

\* ovector_storage(size_type max_size): [st, alloc].
storage_ctor(m, max_size, choice) ==
    LET alloc == guarded_alloc(m, Wrap(max_size * sizeofT), sizeofT, choice)
    IN [st |-> [memory |-> alloc.ptr, size |-> 0,
                max_size |-> storage_max_size(alloc.ptr, max_size)],
        alloc |-> alloc]

deallocate_never(m, st, unmap_ok) == m

\* ovector_storage::deallocate
deallocate(m, st, unmap_ok) ==
    IF st.memory # 0
    THEN guarded_dealloc(m, st.memory, Wrap(st.max_size * sizeofT), sizeofT,
                         unmap_ok)
    ELSE m

\* ------------------------------------------------------------------ ovector
clear_impl_true_gives_up_storage(m, st) == [st |-> NullStorage, m |-> m]

\* clear_impl(std::true_type): [st, m].
clear_impl_true(m, st) == [st |-> [st EXCEPT !.size = 0], m |-> m]

clear_impl_false_without_dtors(m, st) ==
    IF st.memory # 0 THEN [st |-> [st EXCEPT !.size = 0], m |-> m]
    ELSE [st |-> st, m |-> m]

\* clear_impl(std::false_type): [st, m].
clear_impl_false(m, st) ==
    IF st.memory # 0
    THEN [st |-> [st EXCEPT !.size = 0],
          m  |-> destroy_each(m, st, Built(m, st, st.size))]
    ELSE [st |-> st, m |-> m]

clear(m, st) == IF trivialT THEN clear_impl_true(m, st) ELSE clear_impl_false(m, st)

uninitialized_grow_back_by(st, n) == [st EXCEPT !.size = Wrap(@ + n)]

\* [st, ret]: ret is the pointer returned.
uninitialized_shrink_back_by(st, n) ==
    [st  |-> [st EXCEPT !.size = Wrap(@ - n)],
     ret |-> Slot(st, Wrap(st.size - n))]

emplace_back_grow_first(m, st, v, throws) ==
    LET base == Slot(st, st.size)
        built == construct(m, base, v)
    IN  IF throws
        THEN [st |-> uninitialized_grow_back_by(st, 1), m |-> m, ret |-> 0,
              at |-> base]
        ELSE IF built.status # "running"
        THEN [st |-> st, m |-> built, ret |-> 0, at |-> base]
        ELSE [st |-> uninitialized_grow_back_by(st, 1), m |-> built,
              ret |-> base, at |-> base]

\* emplace_back: [st, m, ret, at]; at is the address constructed at.  A
\* throwing constructor leaves before the size is touched.
emplace_back(m, st, v, throws) ==
    LET base == Slot(st, st.size)
        built == construct(m, base, v)
    IN  IF throws
        THEN [st |-> st, m |-> m, ret |-> 0, at |-> base]
        ELSE IF built.status # "running"
        THEN [st |-> st, m |-> built, ret |-> 0, at |-> base]
        ELSE [st |-> uninitialized_grow_back_by(st, 1), m |-> built,
              ret |-> base, at |-> base]

pop_back_without_dtor(m, st) ==
    [st |-> uninitialized_shrink_back_by(st, 1).st, m |-> m]

\* pop_back: uninitialized_shrink_back_by(1)->~T(): [st, m].
pop_back(m, st) ==
    LET s == uninitialized_shrink_back_by(st, 1)
    IN [st |-> s.st, m |-> destroy(m, s.ret)]

\* operator[]
At(m, st, i) ==
    IF Slot(st, i) \in DOMAIN m.heap THEN m.heap[Slot(st, i)].val ELSE 0

\* The first n elements as operator[] reads them.
Prefix(m, st, n) == [i \in 1..n |-> At(m, st, i - 1)]

\* What iterating begin()..end() visits, for the constructed slots.
Elems(m, st) == [i \in Built(m, st, st.size) |-> At(m, st, i)]

\* std::equal(first, last, other): the loop over [0, n), left to right.
RECURSIVE std_equal(_, _, _, _, _)
std_equal(m, lhs, rhs, i, n) ==
    IF i = n THEN TRUE
    ELSE IF At(m, lhs, i) # At(m, rhs, i) THEN FALSE
    ELSE std_equal(m, lhs, rhs, i + 1, n)

op_eq_sizes_only(m, lhs, rhs) == lhs.size = rhs.size

\* operator==(ovector const&, ovector const&)
op_eq(m, lhs, rhs) ==
    lhs.size = rhs.size /\ std_equal(m, lhs, rhs, 0, lhs.size)

\* operator!=(ovector const&, ovector const&)
op_ne(m, lhs, rhs) == ~op_eq(m, lhs, rhs)

keep_source(v, src) == v

\* The source of a move is left [nullptr, 0, 0] by inlined_exchange.
reset_source(v, src) == [v EXCEPT ![src] = Live(NullStorage)]

\* A write of the three fields of an ovector_storage, put on the log of the
\* call: memory is the base pointer moved.
Note(m, ev, memory) ==
    IF m.status = "running"
    THEN [m EXCEPT !.events = Append(@, Event(ev, memory, 0))]
    ELSE m

move_assign_without_release(m, v, dst, src, unmap_ok) ==
    LET cleared == clear(m, Storage(v[dst]))
        v1  == [v EXCEPT ![dst] = Live(cleared.st)]
        tmp == Storage(v1[src])
        v2  == reset_source(v1, src)
        m1  == Note(cleared.m, "moved_from", tmp.memory)
        v3  == [v2 EXCEPT ![dst] = Live(tmp)]
    IN [v |-> v3, m |-> Note(m1, "assigned", tmp.memory)]

move_assign_by_reference(m, v, dst, src, unmap_ok) ==
    LET cleared == clear(m, Storage(v[dst]))
        v1  == [v EXCEPT ![dst] = Live(cleared.st)]
        m1  == deallocate(cleared.m, Storage(v1[dst]), unmap_ok)
        tmp == Storage(v1[src])
        v2  == reset_source(v1, src)
        v3  == [v2 EXCEPT ![dst] = Live(tmp)]
    IN [v |-> v3, m |-> m1]

\* ovector::operator=(ovector&&): clear(), then _storage is assigned from the
\* temporary that inlined_move(other._storage) move-constructs, which leaves
\* the source reset ("moved_from"); ovector_storage::operator= releases the
\* destination's storage and then stores the temporary's fields
\* ("assigned"); the temporary, now null, is destroyed.
move_assign(m, v, dst, src, unmap_ok) ==
    LET cleared == clear(m, Storage(v[dst]))
        v1  == [v EXCEPT ![dst] = Live(cleared.st)]
        tmp == Storage(v1[src])
        v2  == reset_source(v1, src)
        m1  == Note(cleared.m, "moved_from", tmp.memory)
        m2  == deallocate(m1, Storage(v2[dst]), unmap_ok)
        v3  == [v2 EXCEPT ![dst] = Live(tmp)]
        m3  == Note(m2, "assigned", tmp.memory)
    IN [v |-> v3, m |-> deallocate(m3, NullStorage, unmap_ok)]

\* ovector(ovector&&)
move_ctor(v, dst, src) ==
    LET moved == [v EXCEPT ![dst] = Live(Storage(v[src]))]
    IN reset_source(moved, src)

swap_without_size(v, a, b) ==
    [v EXCEPT ![a] = [Live(Storage(v[b])) EXCEPT !.size = v[a].size],
              ![b] = [Live(Storage(v[a])) EXCEPT !.size = v[b].size]]

swap_without_max_size(v, a, b) ==
    [v EXCEPT ![a] = [Live(Storage(v[b])) EXCEPT !.max_size = v[a].max_size],
              ![b] = [Live(Storage(v[a])) EXCEPT !.max_size = v[b].max_size]]

\* ovector::swap
swap(v, a, b) ==
    [v EXCEPT ![a] = Live(Storage(v[b])), ![b] = Live(Storage(v[a]))]

destruct_without_clear(m, st, unmap_ok) == deallocate(m, st, unmap_ok)

\* ~ovector, then ~ovector_storage
destruct(m, st, unmap_ok) ==
    LET cleared == clear(m, st)
    IN deallocate(cleared.m, cleared.st, unmap_ok)

\* ------------------------------------------------------------ the program
Running == mach.status = "running"

\* The machine as a call finds it: the event log starts empty.
M == [mach EXCEPT !.events = << >>]

\* Slot addresses below the size of a live container.
InUse(v, a) ==
    \E c \in Cont :
        /\ v[c].live /\ v[c].memory # 0
        /\ Wrap(a - v[c].memory) % sizeofT = 0
        /\ Wrap(a - v[c].memory) \div sizeofT < v[c].size

\* The machine as a call leaves it.  Memory that is no element of a live
\* container is indeterminate to the program: what was stored there is
\* dropped from the model.
Settle(m, v) == Lose(m, {a \in DOMAIN m.heap : ~InUse(v, a)})

St(c) == Storage(vec[c])

\* Element counts the program asks the factory for: small ones, and counts
\* at which the byte size nears or passes the top of size_type.
Counts ==
    { n \in (0..MaxCount) \cup { Mod \div sizeofT + 1, SIZE_TYPE_MAX } :
        n <= SIZE_TYPE_MAX }

Call(op, a, b, n, v) ==
    [NoCall EXCEPT !.op = op, !.a = a, !.b = b, !.n = n, !.v = v]

Init ==
    /\ \E T \in ElemTypes : sizeofT = T.size /\ trivialT = T.trivial
    /\ vec = [c \in Cont |-> Dead]
    /\ mach = Machine0
    /\ last = NoCall
    /\ hist = Hist0
    /\ held = {}

\* ovector<T> v;
DefaultCtor(c) ==
    /\ Running /\ ~vec[c].live
    /\ vec' = [vec EXCEPT ![c] = Live(NullStorage)]
    /\ mach' = Settle(M, vec')
    /\ last' = Call("ovector", c, 0, 0, 0)
    /\ UNCHANGED <<sizeofT, trivialT, held, hist>>

\* auto v = ovector<T>::with_max_size_or_null(n);
Factory(c, n, choice) ==
    LET r == storage_ctor(M, n, choice)
        done == r.alloc.m.status = "running"
    IN  /\ Running /\ ~vec[c].live
        /\ vec' = IF done THEN [vec EXCEPT ![c] = Live(r.st)] ELSE vec
        /\ mach' = Settle(r.alloc.m, vec')
        /\ last' = [Call("with_max_size_or_null", c, 0, n, 0) EXCEPT
                      !.alloc = AllocInfo(r.alloc, Wrap(n * sizeofT), sizeofT)]
        /\ UNCHANGED <<sizeofT, trivialT, held>>

WithMaxSizeOrNull(c, n, choice) == Factory(c, n, choice) /\ UNCHANGED hist

\* ovector<T> dst(std::move(src));
MoveCtor(dst, src) ==
    /\ Running /\ vec[src].live /\ ~vec[dst].live
    /\ vec' = move_ctor(vec, dst, src)
    /\ mach' = Settle(M, vec')
    /\ last' = Call("move_ctor", dst, src, 0, 0)
    /\ UNCHANGED <<sizeofT, trivialT, held, hist>>

\* dst = std::move(src);
MoveAssign(dst, src, unmap_ok) ==
    LET r == move_assign(M, vec, dst, src, unmap_ok)
    IN  /\ Running /\ vec[src].live /\ vec[dst].live
        /\ vec' = IF r.m.status = "running" THEN r.v ELSE vec
        /\ mach' = Settle(r.m, vec')
        /\ last' = Call("move_assign", dst, src, 0, 0)
        /\ UNCHANGED <<sizeofT, trivialT, held, hist>>

\* swap(a, b);
Swap(a, b) ==
    /\ Running /\ vec[a].live /\ vec[b].live
    /\ vec' = swap(vec, a, b)
    /\ mach' = Settle(M, vec')
    /\ last' = Call("swap", a, b, 0, 0)
    /\ UNCHANGED <<sizeofT, trivialT, held, hist>>

\* v goes out of scope.
Destroy(c, unmap_ok) ==
    LET m == destruct(M, St(c), unmap_ok)
    IN  /\ Running /\ vec[c].live
        /\ vec' = IF m.status = "running" THEN [vec EXCEPT ![c] = Dead] ELSE vec
        /\ mach' = Settle(m, vec')
        /\ last' = Call("~ovector", c, 0, 0, 0)
        /\ UNCHANGED <<sizeofT, trivialT, held, hist>>

\* Sizes from which the model explores growth and shrinking by one.
GrowsFrom(st) == st.size < MaxCount \/ st.size + 1 >= st.max_size

ShrinksFrom(st) == st.size <= MaxCount \/ st.size = st.max_size

\* v.push_back(x) / v.emplace_back(x) on a backed container, also when it is
\* already full; throws says whether T's constructor throws.
Emplace(c, v, throws) ==
    LET r == emplace_back(M, St(c), v, throws)
    IN  /\ Running /\ vec[c].live
        /\ vec[c].memory # 0 /\ vec[c].size <= vec[c].max_size
        /\ GrowsFrom(St(c))
        /\ vec' = [vec EXCEPT ![c] = Live(r.st)]
        /\ mach' = Settle(r.m, vec')
        /\ last' = [Call("emplace_back", c, 0, 0, v) EXCEPT
                      !.threw = throws, !.ret = r.ret, !.at = r.at]
        /\ UNCHANGED <<sizeofT, trivialT, held>>

EmplaceBack(c, v, throws) == Emplace(c, v, throws) /\ UNCHANGED hist

\* The value the program pushes to a container that holds i elements: the
\* values of Values in turn, so that neighbouring elements differ.
Stamp(i) == (i % Cardinality(Values)) + 1

\* v.pop_back();
PopBack(c) ==
    LET r == pop_back(M, St(c))
    IN  /\ Running /\ vec[c].live
        /\ vec[c].size # 0
        /\ ShrinksFrom(St(c))
        /\ vec' = [vec EXCEPT ![c] = Live(r.st)]
        /\ mach' = Settle(r.m, vec')
        /\ last' = Call("pop_back", c, 0, 0, 0)
        /\ UNCHANGED <<sizeofT, trivialT, held, hist>>

\* v.clear();
Clear(c) ==
    LET r == clear(M, St(c))
    IN  /\ Running /\ vec[c].live
        /\ vec' = [vec EXCEPT ![c] = Live(r.st)]
        /\ mach' = Settle(r.m, vec')
        /\ last' = Call("clear", c, 0, 0, 0)
        /\ UNCHANGED <<sizeofT, trivialT, held, hist>>

\* v.uninitialized_grow_back_by(n);
GrowBy(c, n) ==
    /\ Running /\ vec[c].live
    /\ n >= 1 /\ vec[c].size + n <= vec[c].max_size
    /\ n = 1 => GrowsFrom(St(c))
    /\ vec' = [vec EXCEPT ![c] = Live(uninitialized_grow_back_by(St(c), n))]
    /\ mach' = Settle(M, vec')
    /\ last' = Call("uninitialized_grow_back_by", c, 0, n, 0)
    /\ UNCHANGED <<sizeofT, trivialT, held, hist>>

\* v.uninitialized_shrink_back_by(n);
ShrinkBy(c, n) ==
    LET r == uninitialized_shrink_back_by(St(c), n)
    IN  /\ Running /\ vec[c].live
        /\ n >= 1 /\ vec[c].size >= n
        /\ n = 1 => ShrinksFrom(St(c))
        /\ vec' = [vec EXCEPT ![c] = Live(r.st)]
        /\ mach' = Settle(M, vec')
        /\ last' = [Call("uninitialized_shrink_back_by", c, 0, n, 0) EXCEPT
                      !.ret = r.ret]
    /\ UNCHANGED <<sizeofT, trivialT, held, hist>>

Next ==
    \/ \E c \in Cont : DefaultCtor(c)
    \/ \E c \in Cont, n \in Counts, choice \in BottomUp :
          WithMaxSizeOrNull(c, n, choice)
    \/ \E dst \in Cont, src \in Cont : MoveCtor(dst, src)
    \/ \E dst \in Cont, src \in Cont, unmap_ok \in BOOLEAN :
          MoveAssign(dst, src, unmap_ok)
    \/ \E a \in Cont, b \in Cont : Swap(a, b)
    \/ \E c \in Cont, unmap_ok \in BOOLEAN : Destroy(c, unmap_ok)
    \/ \E c \in Cont : EmplaceBack(c, Stamp(vec[c].size), FALSE)
    \/ \E c \in Cont : EmplaceBack(c, 0, TRUE)
    \/ \E c \in Cont : PopBack(c)
    \/ \E c \in Cont : Clear(c)
    \/ \E c \in Cont : \E n \in {1, vec[c].max_size - vec[c].size} : GrowBy(c, n)
    \/ \E c \in Cont : \E n \in {1, vec[c].size} : ShrinkBy(c, n)

Spec == Init /\ [][Next]_vars

\* --------------------------------------------- the allocator on its own
\* guarded_alloc and guarded_dealloc called directly, with the pairs of sizes
\* around the boundaries of its tests.
ReqSizes ==
    { 0, 1, PAGE_SIZE, PAGE_SIZE + 1,
      Mod - 2 * PAGE_SIZE + 1, Mod - PAGE_SIZE, Mod - PAGE_SIZE + 1,
      SIZE_TYPE_MAX }

InitAlloc ==
    /\ sizeofT = 1
    /\ trivialT = TRUE
    /\ vec = [c \in Cont |-> Dead]
    /\ mach = Machine0
    /\ last = NoCall
    /\ hist = Hist0
    /\ held = {}

RawAlloc(dataSize, guardSize, choice) ==
    LET r == guarded_alloc(M, dataSize, guardSize, choice)
    IN  /\ Running
        /\ Cardinality(held) < MaxHeld
        /\ mach' = r.m
        /\ held' = IF r.ptr # 0
                   THEN held \cup {[ptr |-> r.ptr, dataSize |-> dataSize,
                                    guardSize |-> guardSize, base |-> r.base,
                                    len |-> r.len]}
                   ELSE held
        /\ last' = [Call("guarded_alloc", 0, 0, 0, 0) EXCEPT
                      !.alloc = AllocInfo(r, dataSize, guardSize)]
        /\ UNCHANGED <<sizeofT, trivialT, vec, hist>>

RawDealloc(h, unmap_ok) ==
    /\ Running
    /\ h \in held
    /\ mach' = guarded_dealloc(M, h.ptr, h.dataSize, h.guardSize, unmap_ok)
    /\ held' = held \ {h}
    /\ last' = [Call("guarded_dealloc", 0, 0, 0, 0) EXCEPT !.ret = h.ptr]
    /\ UNCHANGED <<sizeofT, trivialT, vec, hist>>

NextAlloc ==
    \/ \E d \in ReqSizes, g \in ReqSizes, choice \in KernelChoices :
          RawAlloc(d, g, choice)
    \/ \E h \in held, unmap_ok \in BOOLEAN : RawDealloc(h, unmap_ok)

AllocSpec == InitAlloc /\ [][NextAlloc]_vars

\* ------------------------------------------------ factory and pushes only
\* Containers made by the factory and only ever pushed to, within their
\* capacity; hist keeps the values pushed.
Make(c, n, choice) ==
    /\ Factory(c, n, choice)
    /\ hist' = [hist EXCEPT ![c] = << >>]

Push(c, v) ==
    /\ vec[c].size < vec[c].max_size
    /\ Emplace(c, v, FALSE)
    /\ hist' = [hist EXCEPT ![c] = Append(@, v)]

NextPush ==
    \/ \E c \in Cont, n \in Counts, choice \in BottomUp : Make(c, n, choice)
    \/ \E c \in Cont, v \in Values : Push(c, v)

PushSpec == Init /\ [][NextPush]_vars

\* ------------------------------------------ factory, pushes and comparisons
\* a == b;
Equal(a, b) ==
    /\ Running /\ vec[a].live /\ vec[b].live
    /\ mach' = Settle(M, vec)
    /\ last' = [Call("operator==", a, b, 0, 0) EXCEPT
                  !.ret = IF op_eq(M, St(a), St(b)) THEN 1 ELSE 0]
    /\ UNCHANGED <<sizeofT, trivialT, vec, held, hist>>

\* a != b;
NotEqual(a, b) ==
    /\ Running /\ vec[a].live /\ vec[b].live
    /\ mach' = Settle(M, vec)
    /\ last' = [Call("operator!=", a, b, 0, 0) EXCEPT
                  !.ret = IF op_ne(M, St(a), St(b)) THEN 1 ELSE 0]
    /\ UNCHANGED <<sizeofT, trivialT, vec, held, hist>>

NextEq ==
    \/ \E c \in Cont, n \in Counts, choice \in BottomUp : Make(c, n, choice)
    \/ \E c \in Cont, v \in Values : Push(c, v)
    \/ \E a \in Cont, b \in Cont : Equal(a, b)
    \/ \E a \in Cont, b \in Cont : NotEqual(a, b)

EqSpec == Init /\ [][NextEq]_vars

\* ------------------------------------------------ the safe operations only
\* Programs that never call uninitialized_grow_back_by or
\* uninitialized_shrink_back_by: every slot below size() was constructed by a
\* push.
NextSafe ==
    \/ \E c \in Cont : DefaultCtor(c)
    \/ \E c \in Cont, n \in Counts, choice \in BottomUp :
          WithMaxSizeOrNull(c, n, choice)
    \/ \E dst \in Cont, src \in Cont : MoveCtor(dst, src)
    \/ \E dst \in Cont, src \in Cont, unmap_ok \in BOOLEAN :
          MoveAssign(dst, src, unmap_ok)
    \/ \E a \in Cont, b \in Cont : Swap(a, b)
    \/ \E c \in Cont, unmap_ok \in BOOLEAN : Destroy(c, unmap_ok)
    \/ \E c \in Cont : EmplaceBack(c, Stamp(vec[c].size), FALSE)
    \/ \E c \in Cont : EmplaceBack(c, 0, TRUE)
    \/ \E c \in Cont : PopBack(c)
    \/ \E c \in Cont : Clear(c)

SafeSpec == Init /\ [][NextSafe]_vars

\* ------------------------------------------- element sizes and alignment
\* sizeof(T) of the element types: powers of two, multiples of a power of
\* two that are none, and odd sizes.
AlignSizes == {1, 2, 3, 4, 8, 12, 24, 4096}

\* Element counts asked of the factory: the small ones, those around one
\* page of elements, and those of Counts.
AlignCounts ==
    { n \in Counts \cup (1..(MaxCount + 1))
               \cup { PAGE_SIZE \div sizeofT, PAGE_SIZE \div sizeofT + 1 } :
        n <= SIZE_TYPE_MAX }

InitAlign ==
    /\ sizeofT \in AlignSizes
    /\ trivialT = TRUE
    /\ vec = [c \in Cont |-> Dead]
    /\ mach = Machine0
    /\ last = NoCall
    /\ hist = Hist0
    /\ held = {}

NextAlign ==
    \/ \E c \in Cont, n \in AlignCounts, choice \in KernelChoices :
          WithMaxSizeOrNull(c, n, choice)
    \/ \E c \in Cont, unmap_ok \in BOOLEAN : Destroy(c, unmap_ok)

AlignSpec == InitAlign /\ [][NextAlign]_vars

\* ---------------------------------------------------------------- claims
\* The container the latest call was made on, and its other operand.
A == last.a

B == last.b

HasEvent(m, ev) == \E i \in DOMAIN m.events : m.events[i].ev = ev

\* Rounding up to a page multiple in unbounded integers.
TrueCeil(x) == ((x + PAGE_SIZE - 1) \div PAGE_SIZE) * PAGE_SIZE

\* C1: whenever the byte size n * sizeof(T) of the requested capacity exceeds
\* the largest size_type value, with_max_size_or_null(n) returns an unbacked
\* container: data() == nullptr, max_size() == 0, size() == 0; never one that
\* reports max_size() == n over a reservation of fewer than n * sizeof(T)
\* bytes.
C1_OverflowingCountIsUnbacked ==
    (/\ last.op = "with_max_size_or_null"
     /\ last.n * sizeofT > SIZE_TYPE_MAX
     /\ Running)
    => /\ vec[A] = Live(NullStorage)
       /\ ~(vec[A].max_size = last.n /\ last.alloc.len < last.n * sizeofT)

\* C2: with_max_size_or_null(n) returns either a backed container with
\* max_size() == n and size() == 0, exactly when the allocation returned a
\* pointer, or an unbacked one with max_size() == 0 and size() == 0; and the
\* process is still running whenever no reservation was made.
C2_FactoryResult ==
    last.op = "with_max_size_or_null" =>
        /\ Running =>
             /\ vec[A].live
             /\ \/ /\ last.alloc.ptr # 0
                   /\ vec[A].memory = last.alloc.ptr
                   /\ vec[A].max_size = last.n
                   /\ vec[A].size = 0
                \/ /\ last.alloc.ptr = 0
                   /\ vec[A] = Live(NullStorage)
        /\ ~HasEvent(mach, "mmap") => Running

\* C2 witness: the kernel refused the reservation and the factory returned an
\* unbacked container.
C2_Witness ==
    /\ last.op = "with_max_size_or_null"
    /\ last.alloc.osCalled /\ last.alloc.ptr = 0
    /\ Running
    /\ vec[A] = Live(NullStorage)

\* C3: guarded_alloc returns nullptr without calling the OS whenever rounding
\* either size up to a page multiple, or adding the rounded sizes, exceeds
\* SIZE_TYPE_MAX; and whenever it calls the OS, the rounded sizes and their
\* sum are the unbounded-integer values.
C3_NoSilentWrap ==
    last.op = "guarded_alloc" =>
        LET d == last.alloc.requestedDataSize
            g == last.alloc.requestedGuardSize
        IN  /\ (\/ TrueCeil(d) > SIZE_TYPE_MAX
                \/ TrueCeil(g) > SIZE_TYPE_MAX
                \/ TrueCeil(d) + TrueCeil(g) > SIZE_TYPE_MAX)
               => (/\ ~last.alloc.osCalled
                   /\ last.alloc.ptr = 0
                   /\ mach.events = << >>)
            /\ last.alloc.osCalled =>
                   /\ last.alloc.allocatedDataSize = TrueCeil(d)
                   /\ last.alloc.allocatedGuardSize = TrueCeil(g)
                   /\ last.alloc.len = TrueCeil(d) + TrueCeil(g)

\* C3 witness: both sizes round without overflow, their sum does not fit, and
\* guarded_alloc returned nullptr.
C3_Witness ==
    /\ last.op = "guarded_alloc"
    /\ last.alloc.requestedDataSize # 0
    /\ TrueCeil(last.alloc.requestedDataSize) <= SIZE_TYPE_MAX
    /\ TrueCeil(last.alloc.requestedGuardSize) <= SIZE_TYPE_MAX
    /\ TrueCeil(last.alloc.requestedDataSize)
         + TrueCeil(last.alloc.requestedGuardSize) > SIZE_TYPE_MAX
    /\ last.alloc.ptr = 0 /\ ~last.alloc.osCalled

\* C4: after a successful guarded_alloc(d, g) on a reservation based at base:
\* the usable size U and the guard size G are page multiples, U >= d, G >= g,
\* [base, base + U) is read-write, [base + U, base + U + G) is the guard, and
\* the pointer p returned satisfies base <= p and p + d = base + U.
C4_GuardFollowsData ==
    (last.op = "guarded_alloc" /\ last.alloc.ptr # 0) =>
        LET d == last.alloc.requestedDataSize
            g == last.alloc.requestedGuardSize
            U == last.alloc.allocatedDataSize
            G == last.alloc.allocatedGuardSize
            base == last.alloc.base
            p == last.alloc.ptr
        IN  /\ U % PAGE_SIZE = 0 /\ G % PAGE_SIZE = 0
            /\ U >= d /\ G >= g
            /\ [base |-> base, len |-> U + G] \in mach.resv
            /\ \A q \in PagesOf(base, U) : mach.pages[q] = "rw"
            /\ \A q \in PagesOf(base + U, G) : mach.pages[q] = "guard"
            /\ base <= p
            /\ p + d = base + U

\* C4 witness: a successful allocation whose data size is more than a page
\* and no page multiple, so the pointer is offset into the reservation.
C4_Witness ==
    /\ last.op = "guarded_alloc"
    /\ last.alloc.ptr # 0
    /\ last.alloc.requestedDataSize > PAGE_SIZE
    /\ last.alloc.requestedDataSize % PAGE_SIZE # 0
    /\ last.alloc.ptr # last.alloc.base

\* C5: a push_back/emplace_back on a backed container with size() ==
\* max_size() constructs at an address on a guard page: the process takes a
\* SIGSEGV and the size stays max_size().
C5_FullPushHitsGuard ==
    [][ (/\ last'.op = "emplace_back" /\ ~last'.threw
         /\ vec[last'.a].memory # 0
         /\ vec[last'.a].size = vec[last'.a].max_size)
        => (/\ last'.at = Slot(St(last'.a), vec[last'.a].max_size)
            /\ mach.pages[PageOf(last'.at)] = "guard"
            /\ mach'.status = "segv"
            /\ vec'[last'.a].size = vec[last'.a].max_size) ]_vars

\* C5 witness: the process died of a store to a guard page in a push on a
\* full container that holds an element.
C5_Witness ==
    /\ last.op = "emplace_back"
    /\ mach.status = "segv"
    /\ vec[A].memory # 0
    /\ vec[A].size = vec[A].max_size /\ vec[A].size > 0
    /\ mach.pages[PageOf(last.at)] = "guard"

\* C6: every live container has max_size == 0 exactly when its base pointer
\* is null, and size <= max_size.
C6_StorageInvariant ==
    \A c \in Cont :
        vec[c].live =>
            /\ (vec[c].max_size = 0) <=> (vec[c].memory = 0)
            /\ vec[c].size <= vec[c].max_size

\* C6 witness: a swap left a container holding elements next to an unbacked
\* one.
C6_Witness ==
    /\ last.op = "swap" /\ A # B
    /\ vec[A].live /\ vec[A].memory = 0
    /\ vec[B].live /\ vec[B].memory # 0 /\ vec[B].size > 0

\* The munmap calls of the latest step.
Unmaps(m) == { i \in DOMAIN m.events : m.events[i].ev = "munmap" }

\* C7: every munmap releases a reservation that is live, and no two in one
\* call release the same one; when no container is left no reservation is
\* left; destroying an unbacked container unmaps nothing.
C7_ReleasedExactlyOnce ==
    [][ /\ \A i \in Unmaps(mach') :
              /\ [base |-> mach'.events[i].addr, len |-> mach'.events[i].len]
                     \in mach.resv
              /\ \A j \in Unmaps(mach') :
                     mach'.events[j] = mach'.events[i] => j = i
        /\ ((\A c \in Cont : ~vec'[c].live) /\ mach'.status = "running")
              => (mach'.resv = {} /\ \A q \in DOMAIN mach'.pages :
                                         mach'.pages[q] = "free")
        /\ (last'.op = "~ovector" /\ vec[last'.a].memory = 0)
              => Unmaps(mach') = {} ]_vars

\* C7 witness: the last container was destroyed, its reservation was
\* unmapped by that call, and none is left.
C7_Witness ==
    /\ last.op = "~ovector"
    /\ \A c \in Cont : ~vec[c].live
    /\ Unmaps(mach) # {}
    /\ mach.resv = {}
    /\ Running

\* C8: an emplace_back whose constructor throws leaves base pointer, size,
\* max_size, the elements and the address space as they were; and the size
\* changes in an emplace_back only by one, after the element was constructed
\* at the slot of the old size.
C8_StrongExceptionSafety ==
    [][ last'.op = "emplace_back" =>
          /\ last'.threw =>
                /\ vec' = vec
                /\ mach'.heap = mach.heap
                /\ mach'.pages = mach.pages
                /\ mach'.status = mach.status
                /\ mach'.events = << >>
          /\ vec'[last'.a].size # vec[last'.a].size =>
                /\ vec'[last'.a].size = vec[last'.a].size + 1
                /\ mach'.events =
                     << Event("construct",
                              Slot(St(last'.a), vec[last'.a].size), sizeofT) >> ]_vars

\* C8 witness: the constructor threw in an emplace_back on a container that
\* holds an element.
C8_Witness ==
    /\ last.op = "emplace_back" /\ last.threw
    /\ vec[A].size > 0
    /\ Slot(St(A), 0) \in DOMAIN mach.heap

\* C9: a backed container made by the factory and pushed to k <= max_size()
\* times has size() == k, reads the values pushed in push order through
\* operator[] and through begin()..end(), and each push returned the address
\* of the slot at the old size.
C9_PushesReadBackInOrder ==
    \A c \in Cont :
        (vec[c].live /\ vec[c].memory # 0 /\ Len(hist[c]) <= vec[c].max_size)
        => /\ vec[c].size = Len(hist[c])
           /\ Prefix(mach, St(c), Len(hist[c])) = hist[c]
           /\ (last.op = "emplace_back" /\ A = c)
                 => last.ret = Slot(St(c), vec[c].size - 1)

\* What a move leaves behind, for source src and destination dst.
Moved(dst, src) ==
    /\ vec'[src] = Live(NullStorage)
    /\ Storage(vec'[dst]) = Storage(vec[src])
    /\ Elems(mach', Storage(vec'[dst])) = Elems(mach, Storage(vec[src]))

\* C10 as stated: after a move construction or a move assignment the source
\* is unbacked and the destination holds the source's prior base pointer,
\* size, max_size and elements.
C10_MoveTransfers ==
    [][ (last'.op \in {"move_ctor", "move_assign"} /\ mach'.status = "running")
        => Moved(last'.a, last'.b) ]_vars

\* C10 between two distinct containers: the source may have been made with
\* a capacity whose byte size wrapped (C1) and grown to it, so that its slots
\* run over the destination's reservation, which the assignment releases.
C10_MoveBetweenDistinct ==
    [][ (/\ last'.op \in {"move_ctor", "move_assign"}
         /\ last'.a # last'.b
         /\ mach'.status = "running")
        => Moved(last'.a, last'.b) ]_vars

\* C11: no two distinct live containers hold the same non-null base pointer.
C11_NoSharedReservation ==
    \A c \in Cont, d \in Cont :
        (c # d /\ vec[c].live /\ vec[d].live /\ vec[c].memory # 0)
        => vec[c].memory # vec[d].memory

\* C11 witness: a move construction from a backed container that holds an
\* element has just left source and destination both alive.
C11_Witness ==
    /\ last.op = "move_ctor" /\ A # B
    /\ vec[A].live /\ vec[B].live
    /\ vec[A].memory # 0 /\ vec[A].size > 0

\* C12 as stated: no operation on a live unbacked container leaves that
\* container backed.
C12_UnbackedStaysUnbacked ==
    [][ \A c \in Cont :
          (vec[c].live /\ vec[c].memory = 0 /\ vec'[c].live)
          => vec'[c].memory = 0 ]_vars

\* C12 amended: a live unbacked container becomes backed only as an operand
\* of a move assignment or of a swap, by taking over the base pointer, size
\* and max_size its other operand held; no reservation is made by that call,
\* and only the factory makes reservations.
C12_BackedOnlyByFactoryOrTransfer ==
    [][ /\ \A c \in Cont :
             (vec[c].live /\ vec[c].memory = 0 /\ vec'[c].live
                /\ vec'[c].memory # 0)
             => /\ last'.op \in {"move_assign", "swap"}
                /\ \E d \in {last'.a, last'.b} \ {c} :
                      /\ vec[d].live
                      /\ Storage(vec'[c]) = Storage(vec[d])
        /\ HasEvent(mach', "mmap") => last'.op = "with_max_size_or_null"
        /\ \A c \in Cont :
             (~vec[c].live /\ vec'[c].live /\ vec'[c].memory # 0)
             => \/ last'.op = "with_max_size_or_null"
                \/ /\ last'.op = "move_ctor"
                   /\ Storage(vec'[c]) = Storage(vec[last'.b]) ]_vars

\* C12 witness: a move assignment into an unbacked destination left it backed
\* and holding an element.
C12_Witness ==
    /\ last.op = "move_assign" /\ A # B
    /\ Unmaps(mach) = {}
    /\ vec[A].memory # 0 /\ vec[A].size > 0
    /\ vec[B] = Live(NullStorage)

\* The destructor calls of the latest step, as the sequence of addresses.
Dtors(m) ==
    LET idx == { i \in DOMAIN m.events : m.events[i].ev = "dtor" }
        RECURSIVE seq(_)
        seq(S) == IF S = {} THEN << >>
                  ELSE <<m.events[SetMin(S)].addr>> \o seq(S \ {SetMin(S)})
    IN seq(idx)

\* The object at slot i of a storage: a set of one object, or of none.
ObjectAt(m, st, i) ==
    IF Slot(st, i) \in DOMAIN m.heap THEN {m.heap[Slot(st, i)]} ELSE {}

\* C13: pop_back on a container of size k >= 1 leaves size k - 1 with the
\* base pointer and max_size as they were, runs the destructor of the element
\* at index k - 1 once and no other destructor, and leaves the elements at
\* indices 0..k-2 as they were.
C13_PopBackDestroysLast ==
    [][ (last'.op = "pop_back" /\ vec[last'.a].size >= 1) =>
          LET c == last'.a
              k == vec[c].size
              old == Storage(vec[c])
          IN  /\ vec'[c] = [vec[c] EXCEPT !.size = k - 1]
              /\ Dtors(mach') =
                    IF ~trivialT /\ ObjectAt(mach, old, k - 1) # {}
                    THEN << Slot(old, k - 1) >> ELSE << >>
              /\ \A i \in Built(mach, old, k - 1) :
                    ObjectAt(mach', old, i) = ObjectAt(mach, old, i)
              /\ DOMAIN mach'.heap \subseteq DOMAIN mach.heap
              /\ ~HasEvent(mach', "construct") ]_vars

\* C13 witness: pop_back ran one destructor and left an element behind it.
C13_Witness ==
    /\ last.op = "pop_back"
    /\ ~trivialT
    /\ Len(Dtors(mach)) = 1
    /\ vec[A].size >= 1
    /\ ObjectAt(mach, St(A), 0) # {}
    /\ Dtors(mach)[1] = Slot(St(A), vec[A].size)

\* The addresses of the slots with index in S, in index order.
RECURSIVE SlotsInOrder(_, _)
SlotsInOrder(st, S) ==
    IF S = {} THEN << >>
    ELSE <<Slot(st, SetMin(S))>> \o SlotsInOrder(st, S \ {SetMin(S)})

\* C14: clear() on a backed container leaves size() == 0 and max_size() and
\* data() as they were, for a trivially destructible T and for any other T;
\* for a T that is not trivially destructible it runs one destructor per
\* element, in index order, and for a trivially destructible T none; and in
\* every state the two clear_impl overloads leave a container with the same
\* base pointer, size and max_size.
C14_ClearPaths ==
    [][ /\ (last'.op = "clear" /\ vec[last'.a].memory # 0) =>
             LET c == last'.a
                 old == Storage(vec[c])
             IN  /\ vec'[c] = [vec[c] EXCEPT !.size = 0]
                 /\ vec'[c].memory # 0
                 /\ Dtors(mach') =
                       IF trivialT THEN << >>
                       ELSE SlotsInOrder(old, Built(mach, old, old.size))
                 /\ ~HasEvent(mach', "munmap") /\ ~HasEvent(mach', "mmap")
        /\ \A c \in Cont :
             vec'[c].live =>
                clear_impl_true(mach', Storage(vec'[c])).st
                   = clear_impl_false(mach', Storage(vec'[c])).st ]_vars

\* C14 witness: clear() ran the destructors of two elements, the one at index
\* 0 first, and left the container backed and empty.
C14_Witness ==
    /\ last.op = "clear"
    /\ ~trivialT
    /\ Dtors(mach) = << Slot(St(A), 0), Slot(St(A), 1) >>
    /\ vec[A].memory # 0 /\ vec[A].size = 0 /\ vec[A].max_size = 2

\* C15: swap(a, b) leaves a with the base pointer, size, max_size and
\* elements b had and b with those a had, whether a and b are backed or not,
\* and constructs and destroys no element and makes and releases no
\* reservation.
C15_SwapExchanges ==
    [][ last'.op = "swap" =>
          LET a == last'.a
              b == last'.b
          IN  /\ Storage(vec'[a]) = Storage(vec[b])
              /\ Storage(vec'[b]) = Storage(vec[a])
              /\ Elems(mach', Storage(vec'[a])) = Elems(mach, Storage(vec[b]))
              /\ Elems(mach', Storage(vec'[b])) = Elems(mach, Storage(vec[a]))
              /\ mach'.events = << >>
              /\ mach'.heap = mach.heap
              /\ mach'.pages = mach.pages /\ mach'.resv = mach.resv ]_vars

\* C15 witness: a swap of two backed containers of different capacity, one
\* of them holding an element.
C15_Witness ==
    /\ last.op = "swap" /\ A # B
    /\ vec[A].memory # 0 /\ vec[B].memory # 0
    /\ vec[A].max_size # vec[B].max_size
    /\ vec[A].size = 1 /\ vec[B].size = 0
    /\ ObjectAt(mach, St(A), 0) # {}

\* C16: a == b returns true exactly when size(a) == size(b) and
\* a[i] == b[i] for every i < size, that is, when the same values were pushed
\* to both in the same order; a != b returns the negation; max_size() plays
\* no part.
C16_EqualityIsElementwise ==
    last.op \in {"operator==", "operator!="} =>
        LET same == /\ vec[A].size = vec[B].size
                    /\ \A i \in 0..(vec[A].size - 1) :
                          At(mach, St(A), i) = At(mach, St(B), i)
        IN  /\ same <=> (hist[A] = hist[B])
            /\ last.op = "operator==" => (last.ret = 1 <=> same)
            /\ last.op = "operator!=" => (last.ret = 1 <=> ~same)
            /\ last.ret \in {0, 1}

\* C16 witness: two containers of different capacity, each holding the same
\* one element, compared equal.
C16_Witness ==
    /\ last.op = "operator==" /\ A # B
    /\ last.ret = 1
    /\ vec[A].max_size # vec[B].max_size
    /\ vec[A].size = 1 /\ vec[B].size = 1
    /\ ObjectAt(mach, St(A), 0) # {}

\* C17: push_back/emplace_back, pop_back, clear, uninitialized_grow_back_by
\* and uninitialized_shrink_back_by on a backed container leave its base
\* pointer and max_size() as they were, so it stays backed, and make and
\* release no reservation.
C17_CapacityIsFixed ==
    [][ (/\ last'.op \in {"emplace_back", "pop_back", "clear",
                          "uninitialized_grow_back_by",
                          "uninitialized_shrink_back_by"}
         /\ vec[last'.a].memory # 0)
        => /\ vec'[last'.a].live
           /\ vec'[last'.a].memory = vec[last'.a].memory
           /\ vec'[last'.a].max_size = vec[last'.a].max_size
           /\ ~HasEvent(mach', "mmap") /\ ~HasEvent(mach', "munmap")
           /\ mach'.resv = mach.resv
           /\ mach'.pages = mach.pages ]_vars

\* C17 witness: a backed container of capacity 2 was grown to its capacity
\* without constructing elements.
C17_Witness ==
    /\ last.op = "uninitialized_grow_back_by"
    /\ vec[A].memory # 0
    /\ vec[A].max_size = 2 /\ vec[A].size = 2
    /\ mach.resv # {}

\* C18: guarded_dealloc(p, d, g), called with the pointer p a successful
\* guarded_alloc(d, g) returned for a reservation of len bytes at base, makes
\* one release call, munmap(base, len), which removes the whole reservation,
\* guard included.
C18_DeallocReleasesWholeReservation ==
    [][ last'.op = "guarded_dealloc" =>
          \E h \in held :
             /\ h.ptr = last'.ret
             /\ held' = held \ {h}
             /\ [base |-> h.base, len |-> h.len] \in mach.resv
             /\ Unmaps(mach') = {1}
             /\ mach'.events[1] = Event("munmap", h.base, h.len)
             /\ mach'.status = "running" =>
                   /\ mach'.events = << Event("munmap", h.base, h.len) >>
                   /\ mach'.resv =
                         mach.resv \ {[base |-> h.base, len |-> h.len]}
                   /\ \A q \in PagesOf(h.base, h.len) :
                         mach'.pages[q] = "free" ]_vars

\* C18 witness: the release of a reservation of two data pages and a guard
\* page, through a pointer that is not page-aligned.
C18_Witness ==
    /\ last.op = "guarded_dealloc"
    /\ last.ret % PAGE_SIZE # 0
    /\ Len(mach.events) = 1
    /\ mach.events[1].ev = "munmap"
    /\ mach.events[1].len = 3 * PAGE_SIZE
    /\ mach.events[1].addr < last.ret
    /\ mach.resv = {}

\* C19: when the reserving mmap fails, guarded_alloc returns nullptr, nothing
\* is reported and the process runs on; when the mmap that installs the guard
\* fails after the reservation was made, or when munmap fails, fatal_error
\* reports and the process terminates: no pointer is returned and the release
\* does not return.  The process terminates this way only after a report.
C19_OnlyReservationFailureIsRecoverable ==
    [][ /\ (/\ last'.op = "guarded_alloc" /\ last'.alloc.osCalled
            /\ ~HasEvent(mach', "mmap"))
           => /\ last'.alloc.ptr = 0
              /\ mach'.status = "running"
              /\ mach'.events = << >>
              /\ mach'.pages = mach.pages
              /\ held' = held
        /\ (last'.op = "guarded_alloc" /\ HasEvent(mach', "mmap"))
           => \/ /\ last'.alloc.ptr # 0
                 /\ mach'.status = "running"
                 /\ Len(mach'.events) = 1
                 /\ \A q \in PagesOf(guard_at(last'.alloc.base,
                                              last'.alloc.allocatedDataSize),
                                     last'.alloc.allocatedGuardSize) :
                       mach'.pages[q] = "guard"
              \/ /\ last'.alloc.ptr = 0
                 /\ mach'.status = "fatal"
                 /\ Len(mach'.events) = 2
                 /\ mach'.events[2].ev = "fatal_error"
                 /\ held' = held
        /\ last'.op = "guarded_dealloc"
           => \/ /\ mach'.status = "running"
                 /\ Len(mach'.events) = 1
              \/ /\ mach'.status = "fatal"
                 /\ Len(mach'.events) = 2
                 /\ mach'.events[1].ev = "munmap"
                 /\ mach'.events[2].ev = "fatal_error"
                 /\ mach'.resv = mach.resv
        /\ mach'.status = "fatal" <=> HasEvent(mach', "fatal_error") ]_vars

\* C19 witness: the reservation was made, the kernel refused the guard
\* mapping, and the process terminated without a pointer.
C19_Witness ==
    /\ last.op = "guarded_alloc"
    /\ last.alloc.requestedGuardSize >= 1
    /\ last.alloc.ptr = 0
    /\ mach.status = "fatal"
    /\ HasEvent(mach, "mmap") /\ HasEvent(mach, "fatal_error")
    /\ mach.resv # {}

\* Positions on the log of the latest call of the events named ev.
Where(m, ev) == { i \in DOMAIN m.events : m.events[i].ev = ev }

\* The live reservations that hold the address ptr.
ResvOf(m, ptr) == { r \in m.resv : r.base <= ptr /\ ptr < r.base + r.len }

\* Every event named first is logged before every event named second.
Before(m, first, second) ==
    \A i \in Where(m, first), j \in Where(m, second) : i < j

\* What C20 says besides the order of the steps: the destination's elements
\* are destroyed, its reservation is released once, the source's is kept, and
\* the destination ends with the source's fields, the source unbacked.
MoveAssignEffect(dst, src) ==
    LET old == Storage(vec[dst])
        from == Storage(vec[src])
    IN  /\ Dtors(mach') = IF trivialT THEN << >>
                          ELSE SlotsInOrder(old, Built(mach, old, old.size))
        /\ Cardinality(Where(mach', "munmap")) = 1
        /\ \A i \in Where(mach', "munmap") :
              [base |-> mach'.events[i].addr, len |-> mach'.events[i].len]
                 \in ResvOf(mach, old.memory)
        /\ from.memory # 0 =>
              /\ ResvOf(mach, from.memory) # {}
              /\ ResvOf(mach, from.memory) \subseteq mach'.resv
        /\ mach'.status = "running" =>
              /\ ResvOf(mach', old.memory) = {}
              /\ Storage(vec'[dst]) = from
              /\ vec'[src] = Live(NullStorage)
              /\ Cardinality(Where(mach', "moved_from")) = 1
              /\ Cardinality(Where(mach', "assigned")) = 1

\* C20 as stated: a move assignment into a backed destination destroys the
\* destination's elements, then releases the destination's reservation, and
\* only then takes the source's fields and resets the source; the
\* destination's reservation is released once and the source's is kept.
C20_ReleaseThenTake ==
    [][ (last'.op = "move_assign" /\ vec[last'.a].memory # 0) =>
          /\ MoveAssignEffect(last'.a, last'.b)
          /\ Before(mach', "dtor", "munmap")
          /\ Before(mach', "munmap", "moved_from")
          /\ Before(mach', "munmap", "assigned") ]_vars

\* C20 amended: a move assignment into a backed destination from another
\* container destroys the destination's elements, then moves the source's
\* fields out, which resets the source, then releases the destination's
\* reservation, and only then stores those fields in the destination; the
\* destination's reservation is released once and the source's is kept.
C20_TakeThenReleaseThenStore ==
    [][ (/\ last'.op = "move_assign" /\ last'.a # last'.b
         /\ vec[last'.a].memory # 0) =>
          /\ MoveAssignEffect(last'.a, last'.b)
          /\ Before(mach', "dtor", "moved_from")
          /\ Before(mach', "moved_from", "munmap")
          /\ Before(mach', "munmap", "assigned") ]_vars

\* C20 witness: a move assignment destroyed the destination's element,
\* released its reservation and left it with the source's storage.
C20_Witness ==
    /\ last.op = "move_assign" /\ A # B
    /\ Running
    /\ Where(mach, "dtor") # {}
    /\ Where(mach, "munmap") # {}
    /\ Where(mach, "assigned") # {}
    /\ vec[A].memory # 0 /\ vec[A].size > 0
    /\ vec[B] = Live(NullStorage)

\* The reservation ovector_storage::deallocate releases for a backed storage.
OwnResv(st) ==
    LET requested == Wrap(st.max_size * sizeofT)
        allocatedDataSize == ceil_multiple(requested, PAGE_SIZE)
    IN [base |-> Wrap(st.memory - wastedSpace(allocatedDataSize, requested)),
        len  |-> Wrap(allocatedDataSize + ceil_multiple(sizeofT, PAGE_SIZE))]

\* C21: after any move assignment, self-assignment included, and in every
\* state that follows, each live container with a non-null base pointer
\* points into a reservation that is still live, the one its destruction
\* releases; and the destruction of a container releases, once, a reservation
\* that was live until then, or nothing when the container is unbacked.
C21_NoDanglingAfterMoveAssign ==
    [][ /\ mach'.status = "running" =>
              \A c \in Cont :
                 (vec'[c].live /\ vec'[c].memory # 0) =>
                    /\ OwnResv(Storage(vec'[c])) \in mach'.resv
                    /\ ResvOf(mach', vec'[c].memory)
                          = {OwnResv(Storage(vec'[c]))}
        /\ last'.op = "~ovector" =>
              /\ \A i \in Unmaps(mach') :
                    /\ [base |-> mach'.events[i].addr,
                        len  |-> mach'.events[i].len] \in mach.resv
                    /\ mach'.events[i].addr = OwnResv(St(last'.a)).base
                    /\ mach'.events[i].len = OwnResv(St(last'.a)).len
              /\ Cardinality(Unmaps(mach'))
                    = IF vec[last'.a].memory # 0 THEN 1 ELSE 0 ]_vars

\* C21 witness: a backed container holding an element was move-assigned to
\* itself: it is empty and still backed, over a live reservation, and the
\* assignment released nothing.
C21_Witness ==
    /\ last.op = "move_assign" /\ A = B
    /\ Running
    /\ Where(mach, "dtor") # {}
    /\ Unmaps(mach) = {}
    /\ vec[A].memory # 0 /\ vec[A].size = 0
    /\ OwnResv(St(A)) \in mach.resv

\* The destructor calls of the latest step on the object at address a.
DtorsAt(m, a) == { i \in Where(m, "dtor") : m.events[i].addr = a }

\* The munmap calls of the latest step whose range holds address a.
UnmapsOf(m, a) ==
    { j \in Where(m, "munmap") :
        m.events[j].addr <= a /\ a < m.events[j].addr + m.events[j].len }

\* C22: over the safe operations, every slot below size() of a live
\* container holds a constructed element no destructor has run on; an
\* element leaves memory only after its destructor ran on it, once, in the
\* call that removes it from its container, and no element is left
\* undestroyed when its container is destroyed or assigned to; an element
\* that stays is not destroyed; and each destructor runs on an element
\* whose reservation is live, before any munmap of that reservation.
C22_DestroyedExactlyOnce ==
    [][ /\ ~HasEvent(mach', "lost")
        /\ mach'.status = "running" =>
              \A c \in Cont :
                 (vec'[c].live /\ vec'[c].memory # 0) =>
                    /\ Cardinality(Built(mach', Storage(vec'[c]), vec'[c].size))
                          = vec'[c].size
                    /\ \A i \in Built(mach', Storage(vec'[c]), vec'[c].size) :
                          mach'.heap[Slot(Storage(vec'[c]), i)].dtors = 0
        /\ \A a \in DOMAIN mach.heap \ DOMAIN mach'.heap :
              Cardinality(DtorsAt(mach', a)) = IF trivialT THEN 0 ELSE 1
        /\ \A a \in DOMAIN mach'.heap :
              /\ mach'.heap[a].dtors = Cardinality(DtorsAt(mach', a))
              /\ mach'.heap[a].dtors <= 1
              /\ mach'.heap[a].dtors = 1 => mach'.status = "fatal"
        /\ \A i \in Where(mach', "dtor") :
              /\ mach'.events[i].addr \in DOMAIN mach.heap
              /\ ResvOf(mach, mach'.events[i].addr) # {}
              /\ \A j \in UnmapsOf(mach', mach'.events[i].addr) : i < j ]_vars

\* C22 witness: the destruction of a container that holds two elements ran
\* the destructor of each, once, and then released the reservation.
C22_Witness ==
    /\ last.op = "~ovector"
    /\ Running
    /\ ~trivialT
    /\ Len(Dtors(mach)) = 2
    /\ Dtors(mach)[1] # Dtors(mach)[2]
    /\ Cardinality(Unmaps(mach)) = 1
    /\ \A i \in Where(mach, "dtor") : UnmapsOf(mach, mach.events[i].addr) # {}
    /\ DOMAIN mach.heap = {}

\* The alignments of C23 for the element size s: the powers of two that
\* divide s and the page size.
AlignmentsOf(s) ==
    { a \in { 2 ^ k : k \in 0..12 } : s % a = 0 /\ PAGE_SIZE % a = 0 }

\* C23: when with_max_size_or_null(n) returns a backed container for
\* elements of size s, then for every power of two a that divides s and the
\* page size: the reservation base is page-aligned, the pointer returned
\* lies a multiple of a above it, and the address of every slot i < n is a
\* multiple of a.
C23_SlotsAreAligned ==
    (last.op = "with_max_size_or_null" /\ last.alloc.ptr # 0) =>
        \A a \in AlignmentsOf(sizeofT) :
            /\ last.alloc.base % PAGE_SIZE = 0
            /\ last.alloc.ptr >= last.alloc.base
            /\ (last.alloc.ptr - last.alloc.base) % a = 0
            /\ \A i \in 0..(last.n - 1) :
                  Slot([memory |-> last.alloc.ptr], i) % a = 0

\* C23 witness: three elements of size 12, which is a multiple of 4 and no
\* power of two, in a reservation the pointer is offset into by a multiple
\* of 4 that is no multiple of 8.
C23_Witness ==
    /\ last.op = "with_max_size_or_null"
    /\ sizeofT = 12 /\ last.n = 3
    /\ last.alloc.ptr # 0
    /\ vec[A].memory = last.alloc.ptr
    /\ (last.alloc.ptr - last.alloc.base) % 4 = 0
    /\ (last.alloc.ptr - last.alloc.base) % 8 # 0
    /\ Slot(St(A), 2) % 4 = 0 /\ Slot(St(A), 2) % 8 # 0

====
